---- MODULE Spec2Model ----
\* Model of mikgur/eth_address_review: EtherscanData.get_summary (the ledger of
\* transaction hashes with per-category counts) and
\* TransactionExplorer.process_transaction (classification of one ledger row
\* into a TransactionResult with its ETH and token movements).
\*
\* Strings of the explorer API stay strings.  Python's int() and float() are
\* tables over the finite set of strings the model draws from; a string outside
\* a table is one the built-in rejects with ValueError.  A float is kept as an
\* exact decimal [m, e] = m * 10^e with m not divisible by 10 (m = 0, e = 0
\* for zero), so that "/ 10 ** d" is a shift of the exponent and two amounts
\* are equal exactly when their records are.  Binary rounding is not modelled.
EXTENDS Integers, Sequences, FiniteSets, TLC

VARIABLES
    txs,            \* address_data.txs            (normal transactions)
    internal_txs,   \* address_data.internal_txs
    token_txs,      \* address_data.token_txs      (erc20)
    nft_txs,        \* address_data.nft_txs        (erc721)
    erc1155_txs,    \* address_data.erc1155_txs
    ds_token_txs,   \* ds_proxy_data.token_txs
    summary,        \* the DataFrame last returned by address_data.get_summary()
    tx_row,         \* the row last passed to process_transaction
    outcome,        \* how that call ended
    result          \* the TransactionResult it returned (when outcome = "return")

vars == <<txs, internal_txs, token_txs, nft_txs, erc1155_txs, ds_token_txs,
          summary, tx_row, outcome, result>>

data == <<txs, internal_txs, token_txs, nft_txs, erc1155_txs, ds_token_txs>>

-----------------------------------------------------------------------------
\* Bounds of the model.

\* Most internal + token + proxy-token events in a classification data set.
MaxSub == 2

\* Most events, over the five categories, in a ledger data set.
MaxLedger == 3

-----------------------------------------------------------------------------
\* Python built-ins on the strings of the model.

WeiDecimals == 18

IntTable ==
    [s \in {"0", "1", "6", "18", "100", "200"} |->
        CASE s = "0"   -> 0
          [] s = "1"   -> 1
          [] s = "6"   -> 6
          [] s = "18"  -> 18
          [] s = "100" -> 100
          [] s = "200" -> 200]

FloatTable ==
    [s \in {"0", "1500000", "2000000000000000000", "500000000000000000"} |->
        CASE s = "0"                   -> [m |-> 0,  e |-> 0]
          [] s = "1500000"             -> [m |-> 15, e |-> 5]
          [] s = "2000000000000000000" -> [m |-> 2,  e |-> 18]
          [] s = "500000000000000000"  -> [m |-> 5,  e |-> 17]]

\* int(s) and float(s) succeed
CanInt(s) == s \in DOMAIN IntTable
CanFloat(s) == s \in DOMAIN FloatTable

PyInt(s) == IntTable[s]
PyFloat(s) == FloatTable[s]

\* x / 10 ** d
DivPow10(x, d) == IF x.m = 0 THEN x ELSE [m |-> x.m, e |-> x.e - d]

\* functionName.split("(")[0]
SplitParenTable ==
    [s \in {"", "execute(address _target, bytes _data)", "build()"} |->
        CASE s = "" -> ""
          [] s = "execute(address _target, bytes _data)" -> "execute"
          [] s = "build()" -> "build"]

SplitParen(s) == SplitParenTable[s]

-----------------------------------------------------------------------------
\* The explorer's configuration: address_book and known_contracts.

ADDR_AOI == "0xa0a0"        \* named ADDRESS_OF_INTEREST in the address book
ADDR_REGISTRY == "0x4678"   \* named, and a known contract
ADDR_PROXY == "0xd5d5"      \* named, and a known contract
ADDR_KNOWN == "0xc0c0"      \* a known contract the address book lacks
ADDR_OTHER == "0xeeee"      \* in neither table

address_book ==
    [a \in {ADDR_AOI, ADDR_REGISTRY, ADDR_PROXY} |->
        CASE a = ADDR_AOI      -> "ADDRESS_OF_INTEREST"
          [] a = ADDR_REGISTRY -> "Maker: Proxy Registry"
          [] a = ADDR_PROXY    -> "DSProxy"]

known_contracts ==
    [a \in {ADDR_REGISTRY, ADDR_PROXY, ADDR_KNOWN} |->
        CASE a = ADDR_REGISTRY -> "Maker: Proxy Registry"
          [] a = ADDR_PROXY    -> "DSProxy"
          [] a = ADDR_KNOWN    -> "Compound"]

get_address_name(hash) ==
    IF hash \in DOMAIN address_book THEN address_book[hash] ELSE hash

-----------------------------------------------------------------------------
\* EtherscanData.get_summary

all_txs == txs \o internal_txs \o token_txs \o nft_txs \o erc1155_txs

\* the loop over all_txs: the first event of every hash, in order of appearance
RECURSIVE hashes_with_ts(_, _, _)
hashes_with_ts(events, hashes, acc) ==
    IF events = <<>> THEN acc
    ELSE LET tx == Head(events) IN
         IF tx.hash \in hashes
         THEN hashes_with_ts(Tail(events), hashes, acc)
         ELSE hashes_with_ts(Tail(events), hashes \cup {tx.hash},
                Append(acc, [hash |-> tx.hash, timestamp |-> PyInt(tx.timeStamp)]))

\* insertion of x behind every element whose key is not larger (stable)
RECURSIVE insert_sorted(_, _)
insert_sorted(s, x) ==
    IF s = <<>> THEN <<x>>
    ELSE IF Head(s).timestamp <= x.timestamp
         THEN <<Head(s)>> \o insert_sorted(Tail(s), x)
         ELSE <<x>> \o s

\* sorted() left out: the rows stay in order of first appearance
sorted_left_out(s) == s

\* sorted(hashes_with_ts, key=lambda x: x[1])
RECURSIVE sorted(_)
sorted(s) ==
    IF s = <<>> THEN <<>>
    ELSE insert_sorted(sorted(SubSeq(s, 1, Len(s) - 1)), s[Len(s)])

\* a column that only flags the presence of the hash
count_column_as_flag(events, h) ==
    IF \E i \in 1..Len(events) : events[i].hash = h THEN 1 ELSE 0

\* the column a counting loop leaves at hash h: 0 unless the loop met the hash
count_column(events, h) ==
    IF \E i \in 1..Len(events) : events[i].hash = h
    THEN Cardinality({i \in 1..Len(events) : events[i].hash = h})
    ELSE 0

get_summary ==
    LET rows == sorted(hashes_with_ts(all_txs, {}, <<>>)) IN
    [i \in 1..Len(rows) |->
        [hash         |-> rows[i].hash,
         timestamp    |-> rows[i].timestamp,
         normal       |-> count_column(txs, rows[i].hash),
         has_internal |-> count_column(internal_txs, rows[i].hash),
         erc20        |-> count_column(token_txs, rows[i].hash),
         erc721       |-> count_column(nft_txs, rows[i].hash),
         erc1155      |-> count_column(erc1155_txs, rows[i].hash)]]

-----------------------------------------------------------------------------
\* transactions.py

token_txs_by_tx_hash(eth_data_token_txs, hash) ==
    SelectSeq(eth_data_token_txs, LAMBDA a : a.hash = hash)

internal_txs_by_tx_hash(eth_data_internal_txs, hash) ==
    SelectSeq(eth_data_internal_txs, LAMBDA a : a.hash = hash)

AssetMovement(name, value, from_address, to_address) ==
    [name |-> name, value |-> value,
     from_address |-> from_address, to_address |-> to_address]

TransactionResult(hash, ts) ==
    [hash |-> hash, ts |-> ts, from_address |-> "", to_address |-> "",
     contract |-> "", function |-> "", external |-> FALSE,
     eth_movements |-> <<>>, tokens_movements |-> <<>>, error |-> FALSE]

add_token_movement(res, token_name, value, from_address, to_address) ==
    [res EXCEPT !.tokens_movements =
        Append(@, AssetMovement(token_name, value, from_address, to_address))]

add_eth_movement(res, value, from_address, to_address) ==
    [res EXCEPT !.eth_movements =
        Append(@, AssetMovement("ETH", value, from_address, to_address))]

\* How a call ends: it returns a TransactionResult, returns None, or raises.
Return(res) == [kind |-> "return", value |-> res]
ReturnNone == [kind |-> "return_none", value |-> TransactionResult("", 0)]
Raise(exc) == [kind |-> exc, value |-> TransactionResult("", 0)]

\* the loop "for token_tx in token_txs" of the primary address's events
RECURSIVE add_token_txs(_, _)
add_token_txs(call, events) ==
    IF call.kind # "return" \/ events = <<>> THEN call
    ELSE LET token_tx == Head(events) IN
         IF ~CanFloat(token_tx.value) \/ ~CanInt(token_tx.tokenDecimal)
         THEN Raise("ValueError")
         ELSE add_token_txs(
                Return(add_token_movement(call.value,
                    token_tx.tokenSymbol,
                    DivPow10(PyFloat(token_tx.value), PyInt(token_tx.tokenDecimal)),
                    get_address_name(token_tx.from),
                    get_address_name(token_tx.to))),
                Tail(events))

\* the loop "for internal_tx in internal_txs"
RECURSIVE add_internal_txs(_, _)
add_internal_txs(call, events) ==
    IF call.kind # "return" \/ events = <<>> THEN call
    ELSE LET internal_tx == Head(events) IN
         IF ~CanFloat(internal_tx.value)
         THEN Raise("ValueError")
         ELSE add_internal_txs(
                Return(add_eth_movement(call.value,
                    DivPow10(PyFloat(internal_tx.value), WeiDecimals),
                    get_address_name(internal_tx.from),
                    get_address_name(internal_tx.to))),
                Tail(events))

\* a skip test that looks at the sender only
skip_on_sender_only(token_tx) ==
    get_address_name(token_tx.from) = "ADDRESS_OF_INTEREST"

\* the test that skips a proxy-address token event
skip_ds_token_tx(token_tx) ==
    \/ get_address_name(token_tx.from) = "ADDRESS_OF_INTEREST"
    \/ get_address_name(token_tx.to) = "ADDRESS_OF_INTEREST"

\* the proxy loop with the names looked at before the amount is computed
RECURSIVE add_ds_token_txs_names_first(_, _)
add_ds_token_txs_names_first(call, events) ==
    IF call.kind # "return" \/ events = <<>> THEN call
    ELSE LET token_tx == Head(events) IN
         IF \/ get_address_name(token_tx.from) = "ADDRESS_OF_INTEREST"
            \/ get_address_name(token_tx.to) = "ADDRESS_OF_INTEREST"
         THEN add_ds_token_txs_names_first(call, Tail(events))
         ELSE IF ~CanFloat(token_tx.value) \/ ~CanInt(token_tx.tokenDecimal)
         THEN Raise("ValueError")
         ELSE add_ds_token_txs_names_first(
                Return(add_token_movement(call.value,
                    token_tx.tokenSymbol,
                    DivPow10(PyFloat(token_tx.value), PyInt(token_tx.tokenDecimal)),
                    get_address_name(token_tx.from),
                    get_address_name(token_tx.to))),
                Tail(events))

\* the loop "for token_tx in ds_token_txs": the amount is computed before the
\* names are looked at
RECURSIVE add_ds_token_txs(_, _)
add_ds_token_txs(call, events) ==
    IF call.kind # "return" \/ events = <<>> THEN call
    ELSE LET token_tx == Head(events) IN
         IF ~CanFloat(token_tx.value) \/ ~CanInt(token_tx.tokenDecimal)
         THEN Raise("ValueError")
         ELSE IF skip_ds_token_tx(token_tx)
         THEN add_ds_token_txs(call, Tail(events))
         ELSE add_ds_token_txs(
                Return(add_token_movement(call.value,
                    token_tx.tokenSymbol,
                    DivPow10(PyFloat(token_tx.value), PyInt(token_tx.tokenDecimal)),
                    get_address_name(token_tx.from),
                    get_address_name(token_tx.to))),
                Tail(events))

\* the own value appended whatever it is
value_not_tested(value) == TRUE

\* the test "if value > 0" on the transaction's own value
value_is_positive(value) == value.m > 0

\* an error test that no flag of "1" passes
is_error_above_one(tx) == PyInt(tx.isError) > 1

\* the test "if int(tx["isError"]) > 0"
is_error(tx) == PyInt(tx.isError) > 0

\* a registry test against another spelling of the name
is_registry_other_spelling(contract_name) == contract_name = "Maker Proxy Registry"

\* the test 'if contract_name == "Maker: Proxy Registry"'
is_registry(contract_name) == contract_name = "Maker: Proxy Registry"

process_contract_transaction(row, tx, res) ==
    IF tx.to \notin DOMAIN address_book THEN Raise("KeyError")
    ELSE
    LET contract_name == address_book[tx.to]
        r1 == [res EXCEPT !.contract = contract_name]
    IN  IF is_registry(contract_name) THEN Return(r1)
        ELSE
        LET r2 == [r1 EXCEPT !.function = SplitParen(tx.functionName)] IN
        IF is_error(tx) THEN Return([r2 EXCEPT !.error = TRUE])
        ELSE
        LET value == DivPow10(PyFloat(tx.value), WeiDecimals)
            r3 == IF value_is_positive(value)
                  THEN add_eth_movement(r2, value,
                           get_address_name(tx.from), get_address_name(tx.to))
                  ELSE r2
            token_txs_ == token_txs_by_tx_hash(token_txs, row.hash)
            internal_txs_ == internal_txs_by_tx_hash(internal_txs, row.hash)
            ds_token_txs_ == token_txs_by_tx_hash(ds_token_txs, row.hash)
        IN  add_ds_token_txs(
                add_internal_txs(
                    add_token_txs(Return(r3), token_txs_),
                    internal_txs_),
                ds_token_txs_)

\* the external branch with the proxy address's token events added as well
process_external_with_proxy(row, res) ==
    add_ds_token_txs(
        add_internal_txs(
            add_token_txs(Return([res EXCEPT !.external = TRUE]),
                          token_txs_by_tx_hash(token_txs, row.hash)),
            internal_txs_by_tx_hash(internal_txs, row.hash)),
        token_txs_by_tx_hash(ds_token_txs, row.hash))

\* the branch "if tx_row["normal"] < 1"
process_external(row, res) ==
    add_internal_txs(
        add_token_txs(Return([res EXCEPT !.external = TRUE]),
                      token_txs_by_tx_hash(token_txs, row.hash)),
        internal_txs_by_tx_hash(internal_txs, row.hash))

\* the plain transfer without its early return: token events are added too
process_plain_transfer_with_tokens(tx, res) ==
    add_token_txs(
        Return(add_eth_movement(res,
            DivPow10(PyFloat(tx.value), WeiDecimals),
            get_address_name(tx.from), get_address_name(tx.to))),
        token_txs_by_tx_hash(token_txs, tx.hash))

\* the branch 'if tx["input"] == "0x"'
process_plain_transfer(tx, res) ==
    Return(add_eth_movement(res,
        DivPow10(PyFloat(tx.value), WeiDecimals),
        get_address_name(tx.from), get_address_name(tx.to)))

\* the test "if tx_row["normal"] < 1"
is_external(row) == row.normal < 1

\* the test 'if self.get_address_name(tx["from"]) == "ADDRESS_OF_INTEREST"'
sent_by_address_of_interest(tx) ==
    get_address_name(tx.from) = "ADDRESS_OF_INTEREST"

process_transaction(row) ==
    LET res == TransactionResult(row.hash, row.timestamp) IN
    IF is_external(row) THEN process_external(row, res)
    ELSE
    LET matching == SelectSeq(txs, LAMBDA a : a.hash = row.hash) IN
    IF matching = <<>> THEN Raise("IndexError")
    ELSE
    LET tx == matching[1]
        r1 == [res EXCEPT !.from_address = get_address_name(tx.from),
                          !.to_address = get_address_name(tx.to)]
    IN  IF tx.input = "0x" THEN process_plain_transfer(tx, r1)
        ELSE IF sent_by_address_of_interest(tx)
        THEN IF tx.to \notin DOMAIN known_contracts
             THEN ReturnNone
             ELSE process_contract_transaction(row, tx, r1)
        ELSE Return(r1)

-----------------------------------------------------------------------------
\* Data sets.

Hashes == {"0xh1", "0xh2"}

NormalEvents ==
    [hash : {"0xh1"}, timeStamp : {"100"},
     from : {ADDR_AOI, ADDR_OTHER},
     to : {ADDR_REGISTRY, ADDR_PROXY, ADDR_KNOWN, ADDR_OTHER},
     value : {"0", "2000000000000000000"},
     input : {"0x", "0x1cff79cd"},
     functionName : {"execute(address _target, bytes _data)"},
     isError : {"0", "1"}]

InternalEvents ==
    [hash : Hashes, timeStamp : {"100"},
     from : {ADDR_PROXY}, to : {ADDR_AOI},
     value : {"500000000000000000", "2000000000000000000"}]

TokenParties ==
    {<<ADDR_AOI, ADDR_PROXY>>, <<ADDR_PROXY, ADDR_AOI>>, <<ADDR_PROXY, ADDR_OTHER>>}

\* token events of the hash of the normal transaction, between any parties,
\* and one token event of another hash
TokenEvents ==
    {[hash |-> hp[1], timeStamp |-> "100", from |-> hp[2][1], to |-> hp[2][2],
      value |-> "1500000", tokenDecimal |-> "6", tokenSymbol |-> "USDC"] :
        hp \in ({"0xh1"} \X TokenParties)
                \cup {<<"0xh2", <<ADDR_PROXY, ADDR_OTHER>>>>}}

\* The classification data sets: at most one normal transaction, of any shape,
\* with at most MaxSub internal, token and proxy-token events around it.
InitClassify ==
    /\ txs \in {<<>>} \cup {<<e>> : e \in NormalEvents}
    /\ \E a, b, c \in 0..MaxSub :
        /\ a + b + c <= MaxSub
        /\ internal_txs \in [1..a -> InternalEvents]
        /\ token_txs \in [1..b -> TokenEvents]
        /\ ds_token_txs \in [1..c -> TokenEvents]
    /\ nft_txs = <<>>
    /\ erc1155_txs = <<>>

LedgerHashes == {"0xh1", "0xh2", "0xh3"}
LedgerTimes == {"100", "200"}

LedgerNormal ==
    [hash : LedgerHashes, timeStamp : LedgerTimes,
     from : {ADDR_OTHER}, to : {ADDR_AOI}, value : {"2000000000000000000"},
     input : {"0x"}, functionName : {""}, isError : {"0"}]

LedgerInternal ==
    [hash : LedgerHashes, timeStamp : LedgerTimes,
     from : {ADDR_PROXY}, to : {ADDR_AOI}, value : {"500000000000000000"}]

LedgerToken ==
    [hash : LedgerHashes, timeStamp : LedgerTimes,
     from : {ADDR_OTHER}, to : {ADDR_AOI},
     value : {"1500000"}, tokenDecimal : {"6"}, tokenSymbol : {"USDC"}]

LedgerNft ==
    [hash : LedgerHashes, timeStamp : {"200"},
     from : {ADDR_OTHER}, to : {ADDR_AOI},
     tokenID : {"1"}, tokenDecimal : {"0"}, tokenSymbol : {"NFT"}]

\* The ledger data sets: at most MaxLedger events over the five categories,
\* of any hash and timestamp.
InitLedger ==
    /\ \E a, b, c, d, e \in 0..MaxLedger :
        /\ a + b + c + d + e <= MaxLedger
        /\ txs \in [1..a -> LedgerNormal]
        /\ internal_txs \in [1..b -> LedgerInternal]
        /\ token_txs \in [1..c -> LedgerToken]
        /\ nft_txs \in [1..d -> LedgerNft]
        /\ erc1155_txs \in [1..e -> LedgerNft]
    /\ ds_token_txs = <<>>

NoRow ==
    [hash |-> "", timestamp |-> 0, normal |-> 0, has_internal |-> 0,
     erc20 |-> 0, erc721 |-> 0, erc1155 |-> 0]

InitCalls ==
    /\ summary = <<>>
    /\ tx_row = NoRow
    /\ outcome = "not_called"
    /\ result = TransactionResult("", 0)

Init == (InitClassify \/ InitLedger) /\ InitCalls

\* summary = address_data.get_summary()
GetSummary ==
    /\ summary' = get_summary
    /\ UNCHANGED <<data, tx_row, outcome, result>>

\* explorer.process_transaction(row) for a row of the summary
ProcessTransaction ==
    \E n \in 1..Len(summary) :
        LET call == process_transaction(summary[n]) IN
        /\ tx_row' = summary[n]
        /\ outcome' = call.kind
        /\ result' = call.value
        /\ UNCHANGED <<data, summary>>

Next == GetSummary \/ ProcessTransaction

Spec == Init /\ [][Next]_vars

-----------------------------------------------------------------------------
\* Data sets whose token and internal events may carry an amount that int()
\* or float() rejects ("" stands for any such string).

RawInternalEvents ==
    [hash : {"0xh1"}, timeStamp : {"100"},
     from : {ADDR_PROXY}, to : {ADDR_AOI},
     value : {"500000000000000000", ""}]

RawTokenEvents ==
    {[hash |-> "0xh1", timeStamp |-> "100", from |-> p[1], to |-> p[2],
      value |-> a[1], tokenDecimal |-> a[2], tokenSymbol |-> "USDC"] :
        p \in {<<ADDR_AOI, ADDR_PROXY>>, <<ADDR_PROXY, ADDR_OTHER>>},
        a \in {<<"1500000", "6">>, <<"", "6">>, <<"1500000", "">>}}

InitRaw ==
    /\ InitCalls
    /\ txs \in {<<>>} \cup {<<e>> : e \in NormalEvents}
    /\ \E a, b, c \in 0..MaxSub :
        /\ a + b + c <= MaxSub
        /\ internal_txs \in [1..a -> RawInternalEvents]
        /\ token_txs \in [1..b -> RawTokenEvents]
        /\ ds_token_txs \in [1..c -> RawTokenEvents]
    /\ nft_txs = <<>>
    /\ erc1155_txs = <<>>

SpecRaw == InitRaw /\ [][Next]_vars

-----------------------------------------------------------------------------
\* Vocabulary of the properties, stated without the operators above.

\* process_transaction has been called on tx_row
Called == outcome # "not_called"

\* the display name of a raw address
ResolvedName(a) ==
    CASE a = ADDR_AOI      -> "ADDRESS_OF_INTEREST"
      [] a = ADDR_REGISTRY -> "Maker: Proxy Registry"
      [] a = ADDR_PROXY    -> "DSProxy"
      [] OTHER             -> a

\* the positions of the events of hash h
IndicesOf(events, h) == {j \in 1..Len(events) : events[j].hash = h}

\* the events of hash h, in the order of the list
Picked(events, h) ==
    LET idx == IndicesOf(events, h) IN
    [k \in 1..Cardinality(idx) |->
        events[CHOOSE j \in idx : Cardinality({x \in idx : x < j}) = k - 1]]

\* the sublist of the events at the positions in keep
Kept(events, keep) ==
    [k \in 1..Cardinality(keep) |->
        events[CHOOSE j \in keep : Cardinality({x \in keep : x < j}) = k - 1]]

\* a * 10^d = x, on exact decimals
IsQuotient(a, x, d) ==
    IF x.m = 0 THEN a.m = 0 ELSE a.m = x.m /\ a.e + d = x.e

\* the decimal an integer string of the model denotes
Denotes(s) ==
    CASE s = "0"                   -> [m |-> 0,  e |-> 0]
      [] s = "1500000"             -> [m |-> 15, e |-> 5]
      [] s = "2000000000000000000" -> [m |-> 2,  e |-> 18]
      [] s = "500000000000000000"  -> [m |-> 5,  e |-> 17]

Digits(s) == CASE s = "0" -> 0 [] s = "6" -> 6 [] s = "18" -> 18

\* the string is no number
Unparseable(s) == s = ""

\* mv is the movement of token event e
IsTokenMovementOf(mv, e) ==
    /\ mv.name = e.tokenSymbol
    /\ IsQuotient(mv.value, Denotes(e.value), Digits(e.tokenDecimal))
    /\ mv.from_address = ResolvedName(e.from)
    /\ mv.to_address = ResolvedName(e.to)

\* mv is the ETH movement of internal or normal event e
IsEthMovementOf(mv, e) ==
    /\ mv.name = "ETH"
    /\ IsQuotient(mv.value, Denotes(e.value), 18)
    /\ mv.from_address = ResolvedName(e.from)
    /\ mv.to_address = ResolvedName(e.to)

\* movements are, one for one and in order, the token movements of events
AreTokenMovementsOf(movements, events) ==
    /\ Len(movements) = Len(events)
    /\ \A k \in 1..Len(events) : IsTokenMovementOf(movements[k], events[k])

AreEthMovementsOf(movements, events) ==
    /\ Len(movements) = Len(events)
    /\ \A k \in 1..Len(events) : IsEthMovementOf(movements[k], events[k])

\* the normal event process_transaction reads for tx_row
HasNormal == Called /\ tx_row.normal >= 1
TheNormal == Picked(txs, tx_row.hash)[1]

\* an end of the event is the address of interest
TouchesAddressOfInterest(e) ==
    \/ ResolvedName(e.from) = "ADDRESS_OF_INTEREST"
    \/ ResolvedName(e.to) = "ADDRESS_OF_INTEREST"

\* the proxy-address token events of tx_row's hash that no end of which is the
\* address of interest
RetainedProxyEvents ==
    Kept(ds_token_txs,
         {j \in IndicesOf(ds_token_txs, tx_row.hash) :
             ~TouchesAddressOfInterest(ds_token_txs[j])})

PrimaryTokenEvents == Picked(token_txs, tx_row.hash)
PrimaryInternalEvents == Picked(internal_txs, tx_row.hash)
ProxyTokenEvents == Picked(ds_token_txs, tx_row.hash)

\* tx_row is a call with call data sent by the address of interest
IsCallByAddressOfInterest ==
    /\ HasNormal
    /\ TheNormal.input # "0x"
    /\ ResolvedName(TheNormal.from) = "ADDRESS_OF_INTEREST"

InKnownContracts(a) == a \in {ADDR_REGISTRY, ADDR_PROXY, ADDR_KNOWN}
InAddressBook(a) == a \in {ADDR_AOI, ADDR_REGISTRY, ADDR_PROXY}

\* tx_row is a call the decomposition takes past the registry test: the
\* recipient is a known contract the address book names, and not the registry
IsDecomposedCall ==
    /\ IsCallByAddressOfInterest
    /\ InKnownContracts(TheNormal.to)
    /\ InAddressBook(TheNormal.to)
    /\ ResolvedName(TheNormal.to) # "Maker: Proxy Registry"

ErrorFlagSet(tx) == tx.isError # "0"

-----------------------------------------------------------------------------
\* C1: the ledger get_summary returns has exactly one entry per distinct hash
\* occurring in any of the five categories (none missing, none repeated, none
\* invented), and its entries are in non-decreasing order of timestamp.
C1_OneEntryPerHashSorted ==
    summary # <<>> =>
        /\ {summary[i].hash : i \in 1..Len(summary)}
             = {all_txs[j].hash : j \in 1..Len(all_txs)}
        /\ \A i, j \in 1..Len(summary) :
             i # j => summary[i].hash # summary[j].hash
        /\ \A i \in 1..(Len(summary) - 1) :
             summary[i].timestamp <= summary[i + 1].timestamp

\* a ledger of two entries built from three events, whose first-seen hash has
\* the later timestamp and so comes second
C1_Witness ==
    /\ Len(summary) = 2
    /\ Len(all_txs) = 3
    /\ all_txs[1].hash = summary[2].hash
    /\ summary[1].timestamp < summary[2].timestamp
    /\ Len(txs) = 1 /\ Len(token_txs) = 1 /\ Len(erc1155_txs) = 1

\* C2: every ledger entry's count for a category is the number of raw events
\* of that category with the entry's hash (0 when there are none), each
\* category counted on its own list, and a hash without normal events still
\* has its entry.
C2_CountsPerCategory ==
    summary # <<>> =>
        /\ \A i \in 1..Len(summary) :
            LET h == summary[i].hash IN
            /\ summary[i].normal = Cardinality(IndicesOf(txs, h))
            /\ summary[i].has_internal = Cardinality(IndicesOf(internal_txs, h))
            /\ summary[i].erc20 = Cardinality(IndicesOf(token_txs, h))
            /\ summary[i].erc721 = Cardinality(IndicesOf(nft_txs, h))
            /\ summary[i].erc1155 = Cardinality(IndicesOf(erc1155_txs, h))
        /\ \A j \in 1..Len(all_txs) :
            IndicesOf(txs, all_txs[j].hash) = {} =>
                \E i \in 1..Len(summary) :
                    summary[i].hash = all_txs[j].hash /\ summary[i].normal = 0

\* an entry without normal events, with two token events and one internal event
C2_Witness ==
    \E i \in 1..Len(summary) :
        /\ summary[i].normal = 0
        /\ summary[i].erc20 = 2
        /\ summary[i].has_internal = 1
        /\ summary[i].erc721 = 0

-----------------------------------------------------------------------------
\* C3: for a ledger entry with normal_count < 1, process_transaction returns a
\* result marked external, with from, to, contract and function names empty
\* and no error, whose token movements are exactly those of the primary
\* address's token events of the hash, in order, and whose ETH movements are
\* exactly those of its internal events of the hash, in order; no
\* proxy-address event contributes.
C3_ExternalInbound ==
    (Called /\ tx_row.normal < 1) =>
        /\ outcome = "return"
        /\ result.external = TRUE
        /\ result.from_address = ""
        /\ result.to_address = ""
        /\ result.contract = ""
        /\ result.function = ""
        /\ result.error = FALSE
        /\ AreTokenMovementsOf(result.tokens_movements, PrimaryTokenEvents)
        /\ AreEthMovementsOf(result.eth_movements, PrimaryInternalEvents)

\* an external entry with one primary token event and a proxy-address token
\* event of the same hash that would be retained in a contract call
C3_Witness ==
    /\ Called /\ tx_row.normal < 1
    /\ Len(result.tokens_movements) = 1
    /\ Len(RetainedProxyEvents) = 1

\* C4: for a ledger entry whose normal event has input "0x",
\* process_transaction returns a result with exactly one ETH movement, of
\* value / 10^18 from the resolved sender to the resolved recipient, and no
\* token movement, whatever events share the hash and whoever the parties are.
C4_PlainTransfer ==
    (HasNormal /\ TheNormal.input = "0x") =>
        /\ outcome = "return"
        /\ Len(result.eth_movements) = 1
        /\ IsEthMovementOf(result.eth_movements[1], TheNormal)
        /\ result.tokens_movements = <<>>

\* a plain transfer of 2 * 10^18 wei by the address of interest to an address
\* in no table, with a token event and an internal event on its hash
C4_Witness ==
    /\ HasNormal /\ TheNormal.input = "0x"
    /\ TheNormal.value = "2000000000000000000"
    /\ TheNormal.from = ADDR_AOI /\ TheNormal.to = ADDR_OTHER
    /\ Len(result.eth_movements) = 1
    /\ result.eth_movements[1].value = [m |-> 2, e |-> 0]
    /\ Len(PrimaryTokenEvents) = 1
    /\ Len(PrimaryInternalEvents) = 1

\* C5: a returned result with is_error set has no ETH and no token movement;
\* and a call the decomposition takes past the registry test whose isError
\* flag is set is returned with is_error set, and so without movements.
C5_ErrorHasNoMovements ==
    /\ (outcome = "return" /\ result.error) =>
            result.eth_movements = <<>> /\ result.tokens_movements = <<>>
    /\ (IsDecomposedCall /\ ErrorFlagSet(TheNormal)) =>
            /\ outcome = "return"
            /\ result.error = TRUE
            /\ result.eth_movements = <<>>
            /\ result.tokens_movements = <<>>

\* a failed call with a positive value and a token and an internal event on
\* its hash
C5_Witness ==
    /\ IsDecomposedCall /\ ErrorFlagSet(TheNormal)
    /\ result.error
    /\ TheNormal.value = "2000000000000000000"
    /\ Len(PrimaryTokenEvents) = 1
    /\ Len(PrimaryInternalEvents) = 1

\* C6: in the decomposition of a successful call, the token movements are the
\* movements of all primary-address token events of the hash, whatever their
\* parties, followed by those of exactly the proxy-address token events of
\* which neither resolved party is ADDRESS_OF_INTEREST; a transfer with the
\* address of interest at one end that is in both sets is counted as often as
\* the primary set holds it.
C6_ProxyPassThroughSkipped ==
    (IsDecomposedCall /\ ~ErrorFlagSet(TheNormal)) =>
        /\ outcome = "return"
        /\ LET n == Len(PrimaryTokenEvents)
               t == result.tokens_movements
           IN  /\ Len(t) = n + Len(RetainedProxyEvents)
               /\ \A k \in 1..n : IsTokenMovementOf(t[k], PrimaryTokenEvents[k])
               /\ \A k \in (n + 1)..Len(t) :
                    /\ IsTokenMovementOf(t[k], RetainedProxyEvents[k - n])
                    /\ t[k].from_address # "ADDRESS_OF_INTEREST"
                    /\ t[k].to_address # "ADDRESS_OF_INTEREST"
               /\ \A i \in 1..n, j \in 1..Len(ProxyTokenEvents) :
                    (/\ PrimaryTokenEvents[i] = ProxyTokenEvents[j]
                     /\ TouchesAddressOfInterest(PrimaryTokenEvents[i])) =>
                        Cardinality({k \in 1..Len(t) :
                            IsTokenMovementOf(t[k], PrimaryTokenEvents[i])})
                        = Cardinality({k \in 1..n :
                            PrimaryTokenEvents[k] = PrimaryTokenEvents[i]})

\* a transfer to the address of interest found in both sets, counted once
C6_Witness ==
    /\ IsDecomposedCall /\ ~ErrorFlagSet(TheNormal)
    /\ Len(PrimaryTokenEvents) = 1
    /\ ProxyTokenEvents = PrimaryTokenEvents
    /\ PrimaryTokenEvents[1].to = ADDR_AOI
    /\ Len(result.tokens_movements) = 1

\* C7 as stated: for a call with call data sent by the address of interest,
\* an unknown recipient ends in the unknown-contract outcome (nothing
\* returned) and a recipient in the known-contracts table in a returned result
\* whose contract name is the recipient contract's; a call from another sender
\* is returned without movements and without the table being consulted.
C7_KnownContractIsNamed ==
    /\ (IsCallByAddressOfInterest /\ ~InKnownContracts(TheNormal.to)) =>
            outcome = "return_none"
    /\ (IsCallByAddressOfInterest /\ InKnownContracts(TheNormal.to)) =>
            /\ outcome = "return"
            /\ result.contract # ""
            /\ InAddressBook(TheNormal.to) =>
                    result.contract = ResolvedName(TheNormal.to)
    /\ (/\ HasNormal /\ TheNormal.input # "0x"
        /\ ResolvedName(TheNormal.from) # "ADDRESS_OF_INTEREST") =>
            /\ outcome = "return"
            /\ result.contract = ""
            /\ result.eth_movements = <<>>
            /\ result.tokens_movements = <<>>

\* C9: for a successful call by the address of interest to a known contract
\* that the address book names other than the registry, the ETH movements are
\* the movement of the call's own value exactly when it is positive, then the
\* movements of the primary address's internal events of the hash in order;
\* the token movements are those of the primary address's token events of the
\* hash in order, then those of the retained proxy-address events in order.
C9_DecompositionOrder ==
    (IsDecomposedCall /\ ~ErrorFlagSet(TheNormal)) =>
        /\ outcome = "return"
        /\ LET own == IF Denotes(TheNormal.value).m > 0 THEN 1 ELSE 0
               eth == result.eth_movements
           IN  /\ Len(eth) = own + Len(PrimaryInternalEvents)
               /\ own = 1 => IsEthMovementOf(eth[1], TheNormal)
               /\ AreEthMovementsOf(SubSeq(eth, own + 1, Len(eth)),
                                    PrimaryInternalEvents)
        /\ AreTokenMovementsOf(result.tokens_movements,
                               PrimaryTokenEvents \o RetainedProxyEvents)

\* a call with a positive value, an internal event and a retained proxy event
C9_Witness ==
    /\ IsDecomposedCall /\ ~ErrorFlagSet(TheNormal)
    /\ Len(result.eth_movements) = 2
    /\ result.eth_movements[1].to_address = "DSProxy"
    /\ result.eth_movements[2].to_address = "ADDRESS_OF_INTEREST"
    /\ Len(RetainedProxyEvents) = 1
    /\ Len(result.tokens_movements) = 1

\* C10: a call by the address of interest whose recipient is a known contract
\* resolving to "Maker: Proxy Registry" is returned with only the sender,
\* recipient and contract names set: no movements, no function name, no
\* error, whatever its value, its isError flag and the events on its hash.
C10_RegistryCallUndecomposed ==
    (/\ IsCallByAddressOfInterest
     /\ InKnownContracts(TheNormal.to)
     /\ ResolvedName(TheNormal.to) = "Maker: Proxy Registry") =>
        /\ outcome = "return"
        /\ result = [hash |-> tx_row.hash, ts |-> tx_row.timestamp,
                     from_address |-> "ADDRESS_OF_INTEREST",
                     to_address |-> "Maker: Proxy Registry",
                     contract |-> "Maker: Proxy Registry",
                     function |-> "", external |-> FALSE,
                     eth_movements |-> <<>>, tokens_movements |-> <<>>,
                     error |-> FALSE]

\* a failed registry call with a positive value and two token events on its
\* hash, one of them the proxy address's
C10_Witness ==
    /\ IsCallByAddressOfInterest
    /\ TheNormal.to = ADDR_REGISTRY
    /\ outcome = "return"
    /\ ErrorFlagSet(TheNormal)
    /\ TheNormal.value = "2000000000000000000"
    /\ Len(PrimaryTokenEvents) = 1
    /\ Len(RetainedProxyEvents) = 1

-----------------------------------------------------------------------------
\* Amounts that cannot be parsed (checked under SpecRaw).

\* the event's value or tokenDecimal is no number
Malformed(e) ==
    \/ Unparseable(e.value)
    \/ "tokenDecimal" \in DOMAIN e /\ Unparseable(e.tokenDecimal)

WellFormed(events) ==
    Kept(events, {j \in 1..Len(events) : ~Malformed(events[j])})

\* the events whose amounts the branch taken for tx_row converts: the token
\* and internal events of an external entry; the token, internal and all
\* proxy-address token events of a successful decomposed call; none otherwise
ConvertedEvents ==
    IF Called /\ tx_row.normal < 1
    THEN PrimaryTokenEvents \o PrimaryInternalEvents
    ELSE IF IsDecomposedCall /\ ~ErrorFlagSet(TheNormal)
    THEN PrimaryTokenEvents \o PrimaryInternalEvents \o ProxyTokenEvents
    ELSE <<>>

SomeConvertedMalformed ==
    \E k \in 1..Len(ConvertedEvents) : Malformed(ConvertedEvents[k])

\* C8 as stated: when a token or internal event of the transaction has an
\* unparseable value or tokenDecimal, the classification is not aborted: a
\* result is returned that lacks only the offending movements.  (The result
\* has no field that could flag it; that part has no counterpart.)
C8_MalformedMovementSkipped ==
    (Called /\ SomeConvertedMalformed) =>
        /\ outcome = "return"
        /\ Len(result.tokens_movements) + Len(result.eth_movements)
             >= Len(WellFormed(PrimaryTokenEvents))
                  + Len(WellFormed(PrimaryInternalEvents))

\* C8, amended: when an event whose amount the classification converts has an
\* unparseable value or tokenDecimal, the conversion raises ValueError and
\* process_transaction returns nothing; it raises ValueError in no other case.
\* A proxy-address event raises even when its parties would have it skipped;
\* events of a branch that converts none (plain transfer, other sender,
\* unknown contract, registry, failed call) are never looked at.
C8_MalformedAmountAborts ==
    Called => (outcome = "ValueError" <=> SomeConvertedMalformed)

\* a contract call aborted by a malformed proxy-address event that the skip
\* test would have left out, after a well-formed primary token event
C8_Witness ==
    /\ IsDecomposedCall /\ ~ErrorFlagSet(TheNormal)
    /\ outcome = "ValueError"
    /\ Len(PrimaryTokenEvents) = 1
    /\ ~Malformed(PrimaryTokenEvents[1])
    /\ Len(ProxyTokenEvents) = 1
    /\ Malformed(ProxyTokenEvents[1])
    /\ TouchesAddressOfInterest(ProxyTokenEvents[1])

====
